---- MODULE Spec2Model ----
(***************************************************************************)
(* Model of devlop_home/logger.py (the leveled logger with its frontend    *)
(* simplifier) and of the start-up sequence of devlop_home/main.py.        *)
(*                                                                         *)
(* Python strings are sequences of tokens.  A token is one character, or   *)
(* one of the fixed markers the code searches for, kept whole:             *)
(*   TOOL_FN      the marker U+3010 "gong ju han shu"   (logger.py:203)    *)
(*   EXEC_RESULT  the marker "zhi xing jie guo" U+3011  (logger.py:203)    *)
(*   ANSWER       the marker "yuan zi wen ti da an"     (logger.py:208)    *)
(*   CALL_MARK    the word "diao yong"                  (logger.py:210)    *)
(*   PARAM_MARK   the word "can shu"                    (logger.py:210)    *)
(*   TERMINATOR   the ideographic full stop U+3002      (logger.py:210)    *)
(*   FW_COMMA     the full-width comma U+FF0C           (logger.py:228)    *)
(* Python values are records tagged by their type in field t.              *)
(***************************************************************************)
EXTENDS Integers, Sequences, FiniteSets, TLC

VARIABLES
    socketio,        \* logger.socketio: "None" or the channel handle
    console_level,   \* logger.console_level
    file_level,      \* logger.file_level
    log_file_path,   \* logger.log_file_path: "None" or a path
    call,            \* the latest call of the logger API: its arguments, the
                     \* fault the environment injected and the exception raised
    emitted,         \* events handed to socketio.emit: by the latest call
                     \* (Spec), since start-up (SpecThreads)
    console_out,     \* chunks the latest call wrote to sys.stdout
    file_out,        \* lines the latest call appended to the log file
                     \* (the program never reads its sinks back, so Spec keeps
                     \* each call's output rather than the whole history)
    pc,              \* per thread: position inside color_print
    cur,             \* per thread: level of the call in progress, or "none"
    done,            \* per thread: number of calls completed
    console,         \* sys.stdout shared by the threads: chunks in write order
    logfile,         \* the log file shared by the threads: lines in write order
    fn_in,           \* input of the pure function under evaluation
    fn_out           \* its result

vars == <<socketio, console_level, file_level, log_file_path, call, emitted,
          console_out, file_out, pc, cur, done, console, logfile, fn_in, fn_out>>

dispatchVars == <<socketio, console_level, file_level, log_file_path, call,
                  emitted, console_out, file_out>>
threadVars == <<pc, cur, done, console, logfile>>
pureVars == <<fn_in, fn_out>>

---------------------------------------------------------------------------
(* Tokens and values *)

TOOL_FN == "[tool-fn"
EXEC_RESULT == "exec-result]"
ANSWER == "[atomic-answer]"
CALL_MARK == "call"
PARAM_MARK == "param"
TERMINATOR == "(.)"
FW_COMMA == "(,)"

\* str.strip() with no argument removes these from both ends
Whitespace == {" ", "\n", "\t"}

PyStr(s) == [t |-> "str", s |-> s]
PyInt(n) == [t |-> "int", v |-> n]
PyFloat(n) == [t |-> "float", v |-> n]
PyNone == [t |-> "none"]
PyList(xs) == [t |-> "list", xs |-> xs]
PyDict(es) == [t |-> "dict", es |-> es]

\* 'x in s' for a one-token needle
Contains(s, tok) == \E i \in 1..Len(s) : s[i] = tok

RECURSIVE ReprOf(_)
RECURSIVE JoinReprs(_)
RECURSIVE JoinItems(_)
\* repr(v): strings are quoted, containers show the repr of their parts
ReprOf(v) ==
    CASE v.t = "str" -> <<"'">> \o v.s \o <<"'">>
      [] v.t = "int" -> <<ToString(v.v)>>
      [] v.t = "float" -> <<ToString(v.v), ".0">>
      [] v.t = "none" -> <<"None">>
      [] v.t = "list" -> <<"[">> \o JoinReprs(v.xs) \o <<"]">>
      [] v.t = "dict" -> <<"{">> \o JoinItems(v.es) \o <<"}">>

JoinReprs(xs) ==
    IF xs = <<>> THEN <<>>
    ELSE IF Len(xs) = 1 THEN ReprOf(xs[1])
    ELSE ReprOf(xs[1]) \o <<",", " ">> \o JoinReprs(Tail(xs))

JoinItems(es) ==
    IF es = <<>> THEN <<>>
    ELSE IF Len(es) = 1 THEN ReprOf(es[1][1]) \o <<":", " ">> \o ReprOf(es[1][2])
    ELSE ReprOf(es[1][1]) \o <<":", " ">> \o ReprOf(es[1][2]) \o <<",", " ">>
         \o JoinItems(Tail(es))

\* str(v): a string is itself, everything else prints as its repr
StrOf(v) == IF v.t = "str" THEN v.s ELSE ReprOf(v)

\* isinstance(v, (str, int, float))
IsScalar(v) == v.t \in {"str", "int", "float"}

RECURSIVE LStrip(_)
LStrip(s) ==
    IF s # <<>> /\ Head(s) \in Whitespace THEN LStrip(Tail(s)) ELSE s

RECURSIVE RStrip(_)
RStrip(s) ==
    IF s # <<>> /\ s[Len(s)] \in Whitespace
    THEN RStrip(SubSeq(s, 1, Len(s) - 1)) ELSE s

\* str.strip()
Strip(s) == RStrip(LStrip(s))

RECURSIVE SplitFrom(_, _, _)
\* the pieces of s between occurrences of sep; acc is the piece being read
SplitFrom(s, sep, acc) ==
    IF s = <<>> THEN <<acc>>
    ELSE IF Head(s) = sep THEN <<acc>> \o SplitFrom(Tail(s), sep, <<>>)
    ELSE SplitFrom(Tail(s), sep, Append(acc, Head(s)))

\* str.split(sep)
Split(s, sep) == SplitFrom(s, sep, <<>>)

RECURSIVE JoinWith(_, _)
\* sep.join(parts)
JoinWith(parts, sep) ==
    IF parts = <<>> THEN <<>>
    ELSE IF Len(parts) = 1 THEN parts[1]
    ELSE parts[1] \o sep \o JoinWith(Tail(parts), sep)

---------------------------------------------------------------------------
(* logger.py:140-191, the value extractor *)

\* Numbers that string payloads of the model can spell
IntLiterals == {7, 42, 1149}

\* json.loads on the strings the model builds.  Their alphabet has no double
\* quote and no bracket, so the only JSON documents they can spell are a
\* number or the empty object, with optional surrounding whitespace; every
\* other string makes json.loads raise.
json_loads(s) ==
    LET b == Strip(s)
        isInt(tok) == \E n \in IntLiterals : ToString(n) = tok
        intOf(tok) == CHOOSE n \in IntLiterals : ToString(n) = tok
    IN  IF Len(b) = 1 /\ isInt(b[1])
        THEN [ok |-> TRUE, val |-> PyInt(intOf(b[1]))]
        ELSE IF Len(b) = 2 /\ isInt(b[1]) /\ b[2] = ".0"
        THEN [ok |-> TRUE, val |-> PyFloat(intOf(b[1]))]
        ELSE IF b = <<"{", "}">>
        THEN [ok |-> TRUE, val |-> PyDict(<<>>)]
        ELSE [ok |-> FALSE, val |-> PyNone]

\* 'k in d'
HasKey(d, k) == \E i \in 1..Len(d.es) : d.es[i][1] = k

\* d[k]
GetItem(d, k) == d.es[CHOOSE i \in 1..Len(d.es) : d.es[i][1] = k][2]

\* isinstance(k, str) and k.endswith(suffix)
KeyEndsWith(k, suffix) == k.t = "str" /\ k.s # <<>> /\ k.s[Len(k.s)] = suffix

\* the aggregate suffixes, in the order the loop of line 181 tries them
SUFFIXES == <<"_sum", "_avg", "_min", "_max", "_count">>

\* the keys the loop of line 168 prefers, in order
UNIT_KEYS == <<PyStr(<<"by_seconds">>), PyStr(<<"seconds">>)>>

RECURSIVE FirstUnitKey(_, _)
\* for key in ['by_seconds', 'seconds']: if key in r: return str(r[key])
FirstUnitKey(r, keys) ==
    IF keys = <<>> THEN [hit |-> FALSE, val |-> <<>>]
    ELSE IF HasKey(r, Head(keys))
    THEN [hit |-> TRUE, val |-> StrOf(GetItem(r, Head(keys)))]
    ELSE FirstUnitKey(r, Tail(keys))

RECURSIVE FirstScalar(_)
\* for v in r.values(): if isinstance(v, (str, int, float)): return str(v)
FirstScalar(es) ==
    IF es = <<>> THEN [hit |-> FALSE, val |-> <<>>]
    ELSE IF IsScalar(es[1][2]) THEN [hit |-> TRUE, val |-> StrOf(es[1][2])]
    ELSE FirstScalar(Tail(es))

RECURSIVE FirstEndingWith(_, _)
\* the inner loop of line 182: for k, v in d.items(): if k.endswith(suffix)
FirstEndingWith(es, suffix) ==
    IF es = <<>> THEN [hit |-> FALSE, val |-> <<>>]
    ELSE IF KeyEndsWith(es[1][1], suffix)
    THEN [hit |-> TRUE, val |-> StrOf(es[1][2])]
    ELSE FirstEndingWith(Tail(es), suffix)

\* variant: the loops nested the other way round, keys outermost
ScanKeysFirst(es, suffixes) ==
    LET hits == {i \in 1..Len(es) :
                   \E j \in 1..Len(suffixes) : KeyEndsWith(es[i][1], suffixes[j])}
    IN  IF hits = {} THEN [hit |-> FALSE, val |-> <<>>]
        ELSE [hit |-> TRUE,
              val |-> StrOf(es[CHOOSE i \in hits : \A k \in hits : i <= k][2])]

RECURSIVE ScanSuffixes(_, _)
\* the outer loop of line 181: for suffix in [...]
ScanSuffixes(es, suffixes) ==
    IF suffixes = <<>> THEN [hit |-> FALSE, val |-> <<>>]
    ELSE LET inner == FirstEndingWith(es, Head(suffixes))
         IN  IF inner.hit THEN inner ELSE ScanSuffixes(es, Tail(suffixes))

\* lines 164-178: the value taken from d['result']
FromResult(r) ==
    IF r.t = "dict"
    THEN LET unit == FirstUnitKey(r, UNIT_KEYS)
             scalar == FirstScalar(r.es)
         IN  IF unit.hit THEN unit.val
             ELSE IF scalar.hit THEN scalar.val
             ELSE StrOf(r)
    ELSE StrOf(r)

\* lines 159-191: extraction from a dict
ExtractFromDict(data) ==
    LET out == PyStr(<<"output">>)
        res == PyStr(<<"result">>)
        d == IF HasKey(data, out) /\ GetItem(data, out).t = "dict"
             THEN GetItem(data, out) ELSE data
        agg == ScanSuffixes(d.es, SUFFIXES)
    IN  IF HasKey(d, res) THEN FromResult(GetItem(d, res))
        ELSE IF agg.hit THEN agg.val
        ELSE IF Len(d.es) = 1 THEN StrOf(d.es[1][2])
        ELSE StrOf(d)

extract_value_from_tool_result(function_result) ==
    LET parsed == IF function_result.t = "str"
                  THEN json_loads(function_result.s)
                  ELSE [ok |-> TRUE, val |-> function_result]
    IN  IF ~parsed.ok THEN function_result.s
        ELSE IF parsed.val.t # "dict" THEN StrOf(parsed.val)
        ELSE ExtractFromDict(parsed.val)

---------------------------------------------------------------------------
(* logger.py:194-252, the simplifier *)

\* lines 217-230; every branch of the loop appends str(v)
join_list(lst) ==
    JoinWith([i \in 1..Len(lst.xs) |-> StrOf(lst.xs[i])], <<FW_COMMA>>)

RECURSIVE GenericParts(_, _)
\* the while loop of lines 235-247, from index i on
GenericParts(arg_list, i) ==
    IF i > Len(arg_list) THEN <<>>
    ELSE LET a == arg_list[i]
             paired == a.t = "str" /\ i + 1 <= Len(arg_list)
                       /\ arg_list[i + 1].t = "list"
         IN  IF paired
             THEN <<a.s \o join_list(arg_list[i + 1])>>
                  \o GenericParts(arg_list, i + 2)
             ELSE IF IsScalar(a)
             THEN <<StrOf(a)>> \o GenericParts(arg_list, i + 1)
             ELSE GenericParts(arg_list, i + 1)

\* line 200
HeadOf(args) == IF args[1].t = "str" THEN args[1].s ELSE StrOf(args[1])

\* line 203
IsToolResult(head) == Contains(head, TOOL_FN) /\ Contains(head, EXEC_RESULT)

\* variant: the text before the first terminator is kept
AnswerTextFirstSentence(arg) ==
    LET text == StrOf(arg)
        pieces == Split(text, TERMINATOR)
    IN  IF Contains(text, CALL_MARK) /\ Contains(text, PARAM_MARK)
           /\ Contains(text, TERMINATOR)
        THEN Strip(pieces[1])
        ELSE text

\* lines 209-213
AnswerText(arg) ==
    LET text == StrOf(arg)
        pieces == Split(text, TERMINATOR)
    IN  IF Contains(text, CALL_MARK) /\ Contains(text, PARAM_MARK)
           /\ Contains(text, TERMINATOR)
        THEN Strip(pieces[Len(pieces)])
        ELSE text

\* The except branch of lines 250-252 is not modelled: no operation of the
\* try block raises on values of the six modelled types.
simplify_for_frontend(level, args) ==
    IF args = <<>> THEN <<>>
    ELSE LET head == HeadOf(args)
         IN  IF IsToolResult(head)
             THEN head \o (IF Len(args) > 1
                           THEN extract_value_from_tool_result(args[2])
                           ELSE <<>>)
             ELSE IF Contains(head, ANSWER) /\ Len(args) > 1
             THEN head \o AnswerText(args[2])
             ELSE JoinWith(GenericParts(args, 1), <<" ">>)

---------------------------------------------------------------------------
(* logger.py:24-97, module state, init and the dispatcher *)

LEVELS == <<"TRACE", "DEBUG", "INFO", "WARNING", "ERROR", "SUCCESS", "SPECIAL">>

LevelSet == {LEVELS[i] : i \in 1..Len(LEVELS)}

\* the ANSI escape of each color tag (ESC written out)
COLORS == [red |-> "ESC[91m", green |-> "ESC[92m", yellow |-> "ESC[93m",
           blue |-> "ESC[94m", magenta |-> "ESC[95m", cyan |-> "ESC[96m",
           white |-> "ESC[97m", grey |-> "ESC[90m", reset |-> "ESC[0m"]

logs_path == "devlop_output/logs"

\* the value of the global socketio before init_logger_with_flask
NoChannel == "None"

\* the SocketIO object main.py:65 creates
Channel == "SocketIO"

\* 'x in LEVELS'
InLevels(x) == \E i \in 1..Len(LEVELS) : LEVELS[i] = x

\* list.index(x): the first position holding x
IndexOf(seq, x) ==
    CHOOSE i \in 1..Len(seq) : seq[i] = x /\ \A j \in 1..(i - 1) : seq[j] # x

\* variant: a strict comparison
should_log_strict(level, target_level) ==
    IndexOf(LEVELS, level) > IndexOf(LEVELS, target_level)

should_log(level, target_level) ==
    IndexOf(LEVELS, level) >= IndexOf(LEVELS, target_level)

\* truth value of a Python object used as a condition (None and '' are false)
Truthy(v) == v.t # "none" /\ ~(v.t = "str" /\ v.s = <<>>)

\* time.strftime("%Y-%m-%d %H-%M-%S", time.localtime()): the clock reading
date_str == "YYYY-MM-DD HH-MM-SS"

\* os.path.join(logs_path, name)
PathJoin(dir, name) == PyStr(<<dir, "/">> \o name)

\* arguments the model passes to init
FileNameArgs == {PyNone, PyStr(<<>>), PyStr(<<"run.log">>)}
LevelArgs == LevelSet \cup {"info"}

\* arguments the model passes to the seven entry points
LogArgs == {
    <<PyStr(<<"m">>)>>,
    <<PyStr(<<TOOL_FN, "f", EXEC_RESULT>>),
      PyDict(<<<<PyStr(<<"result">>), PyInt(7)>>>>)>> }

\* variant: an invalid argument resets the threshold to the console default
ThresholdOrDefault(arg, prior) == IF InLevels(arg) THEN arg ELSE "DEBUG"

\* lines 64-68: 'if arg in LEVELS: threshold = arg', else it keeps its value
Threshold(arg, prior) == IF InLevels(arg) THEN arg ELSE prior

\* os.makedirs(logs_path, exist_ok=True) is taken to succeed
init(log_filename, console_log_level, file_log_level) ==
    /\ log_file_path' =
         IF Truthy(log_filename)
         THEN PathJoin(logs_path, log_filename.s)
         ELSE PathJoin(logs_path, <<"log_", date_str, ".log">>)
    /\ console_level' = Threshold(console_log_level, console_level)
    /\ file_level' = Threshold(file_log_level, file_level)
    /\ call' = [op |-> "init", log_filename |-> log_filename,
                console_log_level |-> console_log_level,
                file_log_level |-> file_log_level,
                fault |-> "none", raised |-> "none"]
    /\ emitted' = <<>>
    /\ console_out' = <<>>
    /\ file_out' = <<>>
    /\ UNCHANGED socketio
    /\ UNCHANGED threadVars
    /\ UNCHANGED pureVars

init_logger_with_flask(socketio_main) ==
    /\ socketio' = socketio_main
    /\ call' = [op |-> "init_logger_with_flask", socketio_main |-> socketio_main,
                fault |-> "none", raised |-> "none"]
    /\ emitted' = <<>>
    /\ console_out' = <<>>
    /\ file_out' = <<>>
    /\ UNCHANGED <<console_level, file_level, log_file_path>>
    /\ UNCHANGED threadVars
    /\ UNCHANGED pureVars

\* line 79: "<timestamp> [<level>] <args joined by sep>"; the timestamp is the
\* clock reading and is left out of the record
LogMessage(level, args) ==
    [level |-> level,
     text |-> JoinWith([i \in 1..Len(args) |-> StrOf(args[i])], <<" ">>)]

\* lines 84-88: the payload of the 'log_message' event
PushEvent(level, color, args) ==
    [level |-> level, message |-> simplify_for_frontend(level, args),
     color |-> color]

\* variant: forwarding also gated by the console threshold
ForwardsIfLogged(level, chan) ==
    level \in {"INFO", "SPECIAL"} /\ chan # NoChannel
    /\ should_log(level, console_level)

\* line 82
Forwards(level, chan) == level \in {"INFO", "SPECIAL"} /\ chan # NoChannel

\* line 90
WritesConsole(level) == should_log(level, console_level)

\* line 95
WritesFile(level) == Truthy(log_file_path) /\ should_log(level, file_level)

\* lines 91-93: print writes the colored message, then end
ConsoleChunks(level, color, args) ==
    << [part |-> "text", color |-> COLORS[color], reset |-> COLORS["reset"],
        msg |-> LogMessage(level, args)],
       [part |-> "end"] >>

\* The statements of color_print that can raise in the current state:
\* socketio.emit (line 84), print (line 91), open/write (lines 96-97), each
\* only if the call reaches it.
FaultPoints(level) ==
    {"none"}
    \cup (IF Forwards(level, socketio) THEN {"emit"} ELSE {})
    \cup (IF WritesConsole(level) THEN {"print"} ELSE {})
    \cup (IF WritesFile(level) THEN {"open"} ELSE {})

\* fault is the statement the environment makes fail, or "none".  color_print
\* has no try/except: the exception ends the call there and reaches the caller.
color_print(level, color, args) ==
    \E fault \in FaultPoints(level) :
      /\ emitted' = IF Forwards(level, socketio)
                    THEN <<PushEvent(level, color, args)>> ELSE <<>>
      /\ console_out' = IF fault \notin {"emit", "print"} /\ WritesConsole(level)
                        THEN ConsoleChunks(level, color, args) ELSE <<>>
      /\ file_out' = IF fault = "none" /\ WritesFile(level)
                     THEN <<LogMessage(level, args)>> ELSE <<>>
      /\ call' = [op |-> "color_print", level |-> level, color |-> color,
                  args |-> args, fault |-> fault, raised |-> fault]
      /\ UNCHANGED <<socketio, console_level, file_level, log_file_path>>
      /\ UNCHANGED threadVars
      /\ UNCHANGED pureVars

trace(args) == color_print("TRACE", "white", args)

debug(args) == color_print("DEBUG", "grey", args)

info(args) == color_print("INFO", "blue", args)

warning(args) == color_print("WARNING", "yellow", args)

error(args) == color_print("ERROR", "red", args)

success(args) == color_print("SUCCESS", "green", args)

special(args) == color_print("SPECIAL", "cyan", args)

\* placeholders of the variables a specification does not use
IdleThreads ==
    /\ pc = <<>>
    /\ cur = <<>>
    /\ done = <<>>
    /\ console = <<>>
    /\ logfile = <<>>

NoFunction ==
    /\ fn_in = [op |-> "none"]
    /\ fn_out = [ready |-> FALSE]

\* the module as imported: lines 25, 33, 34, 37
ModuleState ==
    /\ socketio = NoChannel
    /\ console_level = "DEBUG"
    /\ file_level = "TRACE"
    /\ log_file_path = PyNone

Init ==
    /\ ModuleState
    /\ call = [op |-> "import", fault |-> "none", raised |-> "none"]
    /\ emitted = <<>>
    /\ console_out = <<>>
    /\ file_out = <<>>
    /\ IdleThreads
    /\ NoFunction

CallInit ==
    \E f \in FileNameArgs, c \in LevelArgs, l \in LevelArgs : init(f, c, l)

CallInitLoggerWithFlask ==
    \E s \in {NoChannel, Channel} : init_logger_with_flask(s)

Next ==
    \/ CallInit
    \/ CallInitLoggerWithFlask
    \/ \E args \in LogArgs : trace(args)
    \/ \E args \in LogArgs : debug(args)
    \/ \E args \in LogArgs : info(args)
    \/ \E args \in LogArgs : warning(args)
    \/ \E args \in LogArgs : error(args)
    \/ \E args \in LogArgs : success(args)
    \/ \E args \in LogArgs : special(args)

Spec == Init /\ [][Next]_vars

---------------------------------------------------------------------------
(* color_print called from several threads (main.py:73-78 serves each      *)
(* request on its own thread).  The module holds no lock.  print(text,     *)
(* end=end) performs two writes on sys.stdout, the text and then end, and  *)
(* another thread can run between them; the file record is one write of    *)
(* message + newline on a file opened in append mode.                      *)

NumThreads == 2

MaxCallsPerThread == 2

Threads == 1..NumThreads

\* what each thread logs
ThreadArgs == <<PyStr(<<"m">>)>>

\* the entry points the threads call: trace reaches the file only, debug the
\* console and the file, info the channel as well
ThreadLevels == {"TRACE", "DEBUG", "INFO"}

\* the color each entry point passes (lines 101-133)
ColorOf(level) ==
    CASE level = "TRACE" -> "white"
      [] level = "DEBUG" -> "grey"
      [] level = "INFO" -> "blue"
      [] level = "WARNING" -> "yellow"
      [] level = "ERROR" -> "red"
      [] level = "SUCCESS" -> "green"
      [] level = "SPECIAL" -> "cyan"

\* lines 78-88: the entry point is called, the message is formatted and the
\* event is emitted
Begin(t) ==
    /\ pc[t] = "idle"
    /\ done[t] < MaxCallsPerThread
    /\ \E level \in ThreadLevels :
         /\ cur' = [cur EXCEPT ![t] = level]
         /\ emitted' = IF Forwards(level, socketio)
                       THEN Append(emitted, PushEvent(level, ColorOf(level), ThreadArgs))
                       ELSE emitted
    /\ pc' = [pc EXCEPT ![t] = "print"]
    /\ UNCHANGED <<done, console, logfile>>
    /\ UNCHANGED <<socketio, console_level, file_level, log_file_path, call,
                   console_out, file_out>>
    /\ UNCHANGED pureVars

\* lines 90-93, first write of print: the colored message
PrintText(t) ==
    /\ pc[t] = "print"
    /\ IF WritesConsole(cur[t])
       THEN /\ console' = Append(console,
                  [by |-> t] @@ ConsoleChunks(cur[t], ColorOf(cur[t]), ThreadArgs)[1])
            /\ pc' = [pc EXCEPT ![t] = "print_end"]
       ELSE /\ console' = console
            /\ pc' = [pc EXCEPT ![t] = "file"]
    /\ UNCHANGED <<cur, done, logfile>>
    /\ UNCHANGED dispatchVars
    /\ UNCHANGED pureVars

\* lines 90-93, second write of print: end
PrintEnd(t) ==
    /\ pc[t] = "print_end"
    /\ console' = Append(console,
          [by |-> t] @@ ConsoleChunks(cur[t], ColorOf(cur[t]), ThreadArgs)[2])
    /\ pc' = [pc EXCEPT ![t] = "file"]
    /\ UNCHANGED <<cur, done, logfile>>
    /\ UNCHANGED dispatchVars
    /\ UNCHANGED pureVars

\* lines 95-97: open in append mode, one write, close
FileWrite(t) ==
    /\ pc[t] = "file"
    /\ logfile' = IF WritesFile(cur[t])
                  THEN Append(logfile, [by |-> t, part |-> "line",
                                        msg |-> LogMessage(cur[t], ThreadArgs)])
                  ELSE logfile
    /\ pc' = [pc EXCEPT ![t] = "idle"]
    /\ cur' = [cur EXCEPT ![t] = "none"]
    /\ done' = [done EXCEPT ![t] = done[t] + 1]
    /\ UNCHANGED console
    /\ UNCHANGED dispatchVars
    /\ UNCHANGED pureVars

\* the state main.py leaves before it serves requests: line 66 wires the
\* channel, line 92 calls logger.init() with its defaults
InitThreads ==
    /\ socketio = Channel
    /\ console_level = "DEBUG"
    /\ file_level = "TRACE"
    /\ log_file_path = PathJoin(logs_path, <<"log_", date_str, ".log">>)
    /\ call = [op |-> "init", log_filename |-> PyNone,
               console_log_level |-> "DEBUG", file_log_level |-> "TRACE",
               fault |-> "none", raised |-> "none"]
    /\ emitted = <<>>
    /\ console_out = <<>>
    /\ file_out = <<>>
    /\ pc = [t \in Threads |-> "idle"]
    /\ cur = [t \in Threads |-> "none"]
    /\ done = [t \in Threads |-> 0]
    /\ console = <<>>
    /\ logfile = <<>>
    /\ NoFunction

NextThreads ==
    \/ \E t \in Threads : Begin(t)
    \/ \E t \in Threads : PrintText(t)
    \/ \E t \in Threads : PrintEnd(t)
    \/ \E t \in Threads : FileWrite(t)

SpecThreads == InitThreads /\ [][NextThreads]_vars

---------------------------------------------------------------------------
(* The pure functions applied to bounded inputs: should_log, the value     *)
(* extractor and the simplifier.                                           *)

MaxEntries == 2

MaxArgs == 2

MaxTextLen == 3

\* sequences over S of length at most n
SeqsUpTo(S, n) == UNION {[1..k -> S] : k \in 0..n}

\* a Python dict holds each key once
DistinctKeys(es) ==
    \A i, j \in 1..Len(es) : i # j => es[i][1] # es[j][1]

\* the dicts of at most n entries drawn from the (key, value) pairs P
Maps(P, n) == {PyDict(es) : es \in {e \in SeqsUpTo(P, n) : DistinctKeys(e)}}

Key(name) == PyStr(<<name>>)

\* values of d['result']: unit dicts, a number, None
UnitPairs ==
    {Key("by_seconds"), Key("seconds"), Key("minutes"), Key("hours")}
    \X {PyInt(7), PyFloat(1149), PyNone}

ResultValues == Maps(UnitPairs, MaxEntries) \cup {PyInt(42), PyNone}

\* entries of the dict the rules are applied to
FlatPairs ==
    ( {Key("result"), Key("output"), PyStr(<<"rows", "_sum">>),
       PyStr(<<"rows", "_avg">>), PyStr(<<"rows", "_min">>),
       PyStr(<<"rows", "_max">>), PyStr(<<"rows", "_count">>),
       Key("label"), Key("value"), PyInt(1)}
      \X {PyInt(42), PyStr(<<"ok">>)} )
    \cup {<<Key("result"), PyDict(<<<<Key("seconds"), PyInt(7)>>>>)>>}

FlatMaps == Maps(FlatPairs, MaxEntries)

ResultMaps == {PyDict(<<<<Key("result"), r>>>>) : r \in ResultValues}

\* the dict payloads: each of the above bare, under 'output', and under
\* 'output' beside a 'result' of the outer dict
Payloads ==
    LET inner == FlatMaps \cup ResultMaps
    IN  inner
        \cup {PyDict(<<<<Key("output"), m>>>>) : m \in inner}
        \cup {PyDict(<<<<Key("result"), PyInt(7)>>, <<Key("output"), m>>>>) :
                m \in FlatMaps}

\* the string payloads
StringPayloads ==
    {PyStr(<<"42">>), PyStr(<<" ", "42", "\n">>), PyStr(<<"1149", ".0">>),
     PyStr(<<"{", "}">>), PyStr(<<"ok">>), PyStr(<<>>)}

Labels ==
    {PyStr(<<"L">>), PyStr(<<TOOL_FN, "f", EXEC_RESULT>>), PyStr(<<ANSWER>>),
     PyStr(<<TOOL_FN, ANSWER, EXEC_RESULT>>), PyStr(<<TOOL_FN, ANSWER>>)}

Texts == {PyStr(s) : s \in SeqsUpTo({CALL_MARK, PARAM_MARK, TERMINATOR, " ", "x"},
                                      MaxTextLen)}

\* a text with two terminators and blanks around the tail
LongText == PyStr(<<CALL_MARK, TERMINATOR, PARAM_MARK, TERMINATOR, " ", "x", " ">>)

ArgValues ==
    Labels
    \cup {PyInt(42), PyFloat(1149), PyNone, LongText,
          PyList(<<PyInt(7), PyStr(<<"a">>)>>),
          PyDict(<<>>),
          PyDict(<<<<Key("k"), PyInt(42)>>>>),
          PyDict(<<<<Key("a"), PyInt(7)>>, <<Key("b"), PyInt(42)>>>>),
          PyDict(<<<<Key("msg"), PyStr(<<TOOL_FN, "f", EXEC_RESULT>>)>>>>),
          PyDict(<<<<Key("msg"), PyStr(<<ANSWER>>)>>>>)}

ArgTuples ==
    SeqsUpTo(ArgValues, MaxArgs)
    \cup {<<l, tx>> : l \in Labels, tx \in Texts}

PureInputs ==
    {[op |-> "should_log", level |-> l, target_level |-> th] :
        l \in LevelSet, th \in LevelSet}
    \cup {[op |-> "extract", function_result |-> p] :
            p \in Payloads \cup StringPayloads}
    \cup {[op |-> "simplify", level |-> l, args |-> a] :
            l \in {"INFO", "SPECIAL"}, a \in ArgTuples}

InitPure ==
    /\ ModuleState
    /\ call = [op |-> "import", fault |-> "none", raised |-> "none"]
    /\ emitted = <<>>
    /\ console_out = <<>>
    /\ file_out = <<>>
    /\ IdleThreads
    /\ fn_in \in PureInputs
    /\ fn_out = [ready |-> FALSE]

EvalShouldLog ==
    /\ fn_in.op = "should_log"
    /\ ~fn_out.ready
    /\ fn_out' = [ready |-> TRUE,
                  val |-> should_log(fn_in.level, fn_in.target_level)]
    /\ UNCHANGED fn_in
    /\ UNCHANGED dispatchVars
    /\ UNCHANGED threadVars

EvalExtract ==
    /\ fn_in.op = "extract"
    /\ ~fn_out.ready
    /\ fn_out' = [ready |-> TRUE,
                  val |-> extract_value_from_tool_result(fn_in.function_result)]
    /\ UNCHANGED fn_in
    /\ UNCHANGED dispatchVars
    /\ UNCHANGED threadVars

EvalSimplify ==
    /\ fn_in.op = "simplify"
    /\ ~fn_out.ready
    /\ fn_out' = [ready |-> TRUE,
                  val |-> simplify_for_frontend(fn_in.level, fn_in.args)]
    /\ UNCHANGED fn_in
    /\ UNCHANGED dispatchVars
    /\ UNCHANGED threadVars

NextPure ==
    \/ EvalShouldLog
    \/ EvalExtract
    \/ EvalSimplify

SpecPure == InitPure /\ [][NextPure]_vars

---------------------------------------------------------------------------
(* Properties *)

\* the seven severity names and their ranks, as the specification lists them
SevenNames == {"TRACE", "DEBUG", "INFO", "WARNING", "ERROR", "SUCCESS", "SPECIAL"}

Rank(name) ==
    CASE name = "TRACE" -> 0
      [] name = "DEBUG" -> 1
      [] name = "INFO" -> 2
      [] name = "WARNING" -> 3
      [] name = "ERROR" -> 4
      [] name = "SUCCESS" -> 5
      [] name = "SPECIAL" -> 6

Least(S) == CHOOSE x \in S : \A y \in S : x <= y

Greatest(S) == CHOOSE x \in S : \A y \in S : x >= y

\* sub occurs in s as a contiguous run of tokens
IsInfix(sub, s) ==
    \E k \in 0..(Len(s) - Len(sub)) : SubSeq(s, k + 1, k + Len(sub)) = sub

\* C1: for every pair of the seven severities, should_log(level, threshold)
\* is true exactly when level's rank is at least threshold's rank.
ShouldLogIsRankOrder ==
    (fn_in.op = "should_log" /\ fn_out.ready) =>
        /\ fn_in.level \in SevenNames
        /\ fn_in.target_level \in SevenNames
        /\ fn_out.val = (Rank(fn_in.level) >= Rank(fn_in.target_level))

\* should_log("ERROR", "INFO") has been evaluated, and is true
ShouldLogErrorInfo ==
    /\ fn_in.op = "should_log" /\ fn_in.level = "ERROR"
    /\ fn_in.target_level = "INFO"
    /\ fn_out.ready /\ fn_out.val = TRUE

\* C2: a log call hands an event to the channel exactly when a channel is
\* configured and the severity is INFO or SPECIAL, then exactly one event, of
\* that severity; the thresholds play no part.  Any other call hands over
\* nothing and meets no error of the channel.
PushDecision ==
    call.op = "color_print" =>
        LET forwarded == socketio # "None" /\ call.level \in {"INFO", "SPECIAL"}
        IN  /\ Len(emitted) = (IF forwarded THEN 1 ELSE 0)
            /\ forwarded => emitted[1].level = call.level
            /\ ~forwarded => call.raised # "emit"

\* an INFO call is forwarded although both thresholds keep it out of the sinks
PushedBelowThresholds ==
    /\ call.op = "color_print" /\ call.level = "INFO" /\ call.raised = "none"
    /\ console_level = "SPECIAL" /\ file_level = "SPECIAL"
    /\ Len(emitted) = 1 /\ console_out = <<>> /\ file_out = <<>>

\* C3: a failing sink write (print, or open/write of the log file) does not
\* reach the caller: the log call returns normally.
SinkFailureContained ==
    (call.op = "color_print" /\ call.fault \in {"print", "open"}) =>
        call.raised = "none"

\* C4: when the transport rejects the emit, the log call returns normally and
\* its console and file writes happen as the thresholds say.
EmitFailureContained ==
    (call.op = "color_print" /\ call.fault = "emit") =>
        /\ call.raised = "none"
        /\ (console_out # <<>>) = (Rank(call.level) >= Rank(console_level))
        /\ (file_out # <<>>) =
             (log_file_path # PyNone /\ Rank(call.level) >= Rank(file_level))

\* C5: in each sink every record is contiguous: on the console a call's text
\* is followed at once by that call's own end chunk (or is the latest write),
\* and every file entry is one whole line.
LineAtomic ==
    /\ \A i \in 1..Len(console) :
         console[i].part = "text" =>
            \/ i = Len(console)
            \/ console[i + 1].part = "end" /\ console[i + 1].by = console[i].by
    /\ \A i \in 1..Len(logfile) : logfile[i].part = "line"

\* C6: both thresholds are among the seven names from the start on; an init
\* call returns normally, replaces a threshold by a valid argument and keeps
\* the previous value for an invalid one.
ThresholdsValidated ==
    /\ console_level \in SevenNames /\ file_level \in SevenNames
    /\ [][ /\ console_level' \in SevenNames
           /\ file_level' \in SevenNames
           /\ call'.op = "init" =>
                /\ call'.raised = "none"
                /\ console_level' = IF call'.console_log_level \in SevenNames
                                    THEN call'.console_log_level
                                    ELSE console_level
                /\ file_level' = IF call'.file_log_level \in SevenNames
                                 THEN call'.file_log_level
                                 ELSE file_level ]_vars

\* init was given an invalid console threshold and a valid file threshold:
\* the console threshold set by an earlier init is still there
InvalidThresholdIgnored ==
    /\ call.op = "init" /\ call.raised = "none"
    /\ call.console_log_level \notin SevenNames /\ console_level = "ERROR"
    /\ call.file_log_level = "INFO" /\ file_level = "INFO"

\* C7: an argument that is a mapping with no label string right before it
\* never shows in the simplified message: its serialization is not part of
\* the returned string.
NoRawMapping ==
    (fn_in.op = "simplify" /\ fn_out.ready) =>
        \A i \in 1..Len(fn_in.args) :
            (fn_in.args[i].t = "dict"
             /\ ~(i > 1 /\ fn_in.args[i - 1].t = "str"))
            => ~IsInfix(StrOf(fn_in.args[i]), fn_out.val)

\* the value the priority of C8 picks from d['result']
ResultChoice(r) ==
    IF r.t # "dict" THEN r
    ELSE LET at(name) == {i \in 1..Len(r.es) : r.es[i][1] = PyStr(<<name>>)}
             scalars == {i \in 1..Len(r.es) :
                           r.es[i][2].t \in {"str", "int", "float"}}
         IN  IF at("by_seconds") # {} THEN r.es[Least(at("by_seconds"))][2]
             ELSE IF at("seconds") # {} THEN r.es[Least(at("seconds"))][2]
             ELSE IF scalars # {} THEN r.es[Least(scalars)][2]
             ELSE r

\* the value the priority of C8 picks from a mapping payload
PriorityChoice(p) ==
    LET outs == {i \in 1..Len(p.es) :
                   p.es[i][1] = PyStr(<<"output">>) /\ p.es[i][2].t = "dict"}
        d == IF outs # {} THEN p.es[Least(outs)][2] ELSE p
        n == Len(d.es)
        results == {i \in 1..n : d.es[i][1] = PyStr(<<"result">>)}
        order == <<"_sum", "_avg", "_min", "_max", "_count">>
        ends(i, j) == /\ d.es[i][1].t = "str"
                      /\ d.es[i][1].s # <<>>
                      /\ d.es[i][1].s[Len(d.es[i][1].s)] = order[j]
        tried == {j \in 1..Len(order) : \E i \in 1..n : ends(i, j)}
    IN  IF results # {} THEN ResultChoice(d.es[Least(results)][2])
        ELSE IF tried # {}
        THEN d.es[Least({i \in 1..n : ends(i, Least(tried))})][2]
        ELSE IF n = 1 THEN d.es[1][2]
        ELSE d

\* C8: for a mapping payload the extractor returns the string form of the
\* value the fixed priority picks: into 'output' when it is a mapping; then
\* 'result' (by_seconds, seconds, first scalar, whole sub-mapping; or the
\* non-mapping result itself); then the first aggregate-suffix key, suffixes
\* tried in order over all keys; then the only value; then the whole mapping.
ExtractorPriority ==
    (fn_in.op = "extract" /\ fn_out.ready /\ fn_in.function_result.t = "dict") =>
        fn_out.val = StrOf(PriorityChoice(fn_in.function_result))

\* a payload whose first key ends in _count and whose second ends in _sum
\* has been extracted: the _sum value is returned
SumBeatsEarlierCount ==
    /\ fn_in.op = "extract" /\ fn_out.ready
    /\ fn_in.function_result =
         PyDict(<< <<PyStr(<<"rows", "_count">>), PyInt(42)>>,
                   <<PyStr(<<"rows", "_sum">>), PyStr(<<"ok">>)>> >>)
    /\ fn_out.val = <<"ok">>

\* the tail C9 keeps of an answer text
TailAfterLastTerminator(text) ==
    LET stops == {i \in 1..Len(text) : text[i] = "(.)"}
        rest == SubSeq(text, Greatest(stops) + 1, Len(text))
        solid == {i \in 1..Len(rest) : rest[i] \notin {" ", "\n", "\t"}}
    IN  IF solid = {} THEN <<>>
        ELSE SubSeq(rest, Least(solid), Greatest(solid))

\* what C9 says the simplified message of an answer call is
AnswerMessage(args) ==
    LET label == StrOf(args[1])
        text == StrOf(args[2])
        marked == /\ \E i \in 1..Len(text) : text[i] = "call"
                  /\ \E i \in 1..Len(text) : text[i] = "param"
                  /\ \E i \in 1..Len(text) : text[i] = "(.)"
    IN  label \o (IF marked THEN TailAfterLastTerminator(text) ELSE text)

HasAnswerMarker(args) ==
    Len(args) > 1 /\ \E i \in 1..Len(StrOf(args[1])) : StrOf(args[1])[i] = "[atomic-answer]"

HasToolMarkers(args) ==
    /\ \E i \in 1..Len(StrOf(args[1])) : StrOf(args[1])[i] = "[tool-fn"
    /\ \E i \in 1..Len(StrOf(args[1])) : StrOf(args[1])[i] = "exec-result]"

FileFollowsInit ==
    /\ call.op = "import" => log_file_path = PyNone
    /\ call.op = "init" => log_file_path # PyNone
    /\ call.op = "color_print" =>
         /\ (log_file_path = PyNone) =>
              /\ file_out = <<>>
              /\ call.fault # "print" =>
                   (console_out # <<>>) = (Rank(call.level) >= Rank(console_level))
              /\ (emitted # <<>>) =
                   (socketio # "None" /\ call.level \in {"INFO", "SPECIAL"})
         /\ (log_file_path # PyNone /\ call.fault # "open") =>
              Len(file_out) = (IF Rank(call.level) >= Rank(file_level) THEN 1 ELSE 0)

====
